---- MODULE Spec2Model ----
(***************************************************************************)
(* State-machine model of eesen's AffineTransform layer                    *)
(* (src/net/affine-trans-layer.h): construction, InitData, ReadData /      *)
(* WriteData, PropagateFnc / BackpropagateFnc, Update (sgd, adagrad,       *)
(* rmsprop), Scale, Add, SetBias and SetLinearity.                         *)
(*                                                                         *)
(* BaseFloat values are fixed-point integers: One stands for 1.0 and a     *)
(* product of two values is rounded toward zero.  Matrices are sequences   *)
(* of rows, vectors are sequences.  A stream is a sequence of items        *)
(* (token, number, matrix, vector) as the token reader/writer frames them. *)
(***************************************************************************)
EXTENDS Integers, Sequences, FiniteSets, TLC

----------------------------------------------------------------------------
\* Bounds of the model.
DimIn == 2
DimOut == 1
MaxBatch == 2
MaxSteps == 3
MaxConf == 2
NumSeeds == 1

----------------------------------------------------------------------------
\* BaseFloat arithmetic.
One == 100

TDiv(n, d) == IF n >= 0 THEN n \div d ELSE -((-n) \div d)

Mul(a, b) == TDiv(a * b, One)

RECURSIVE SqrtSearch(_, _, _)
SqrtSearch(n, lo, hi) ==
  IF lo >= hi THEN lo
  ELSE LET mid == (lo + hi + 1) \div 2
       IN IF mid * mid <= n THEN SqrtSearch(n, mid, hi)
          ELSE SqrtSearch(n, lo, mid - 1)

RECURSIVE SqrtUpper(_, _)
SqrtUpper(n, p) == IF p * p > n THEN p ELSE SqrtUpper(n, 2 * p)

\* sqrt of a fixed-point value, as a fixed-point value
Sqrt(a) == SqrtSearch(a * One, 0, SqrtUpper(a * One, 1))

RECURSIVE SumTo(_, _)
SumTo(f, n) == IF n = 0 THEN 0 ELSE f[n] + SumTo(f, n - 1)

----------------------------------------------------------------------------
\* The dense matrix / vector backend (CuMatrix, CuVector).
NumRows(M) == Len(M)

NumCols(M) == IF Len(M) = 0 THEN 0 ELSE Len(M[1])

Dim(v) == Len(v)

\* Resize(rows, cols) followed by Set(value) / the zeroing constructor
ConstMat(r, c, value) == [i \in 1..r |-> [j \in 1..c |-> value]]

ConstVec(n, value) == [j \in 1..n |-> value]

Trans(M, flag) ==
  IF flag = "kTrans"
  THEN [j \in 1..NumCols(M) |-> [i \in 1..NumRows(M) |-> M[i][j]]]
  ELSE M

\* C = alpha * op(A) * op(B) + beta * C
AddMatMat(alpha, A, transA, B, transB, beta, C) ==
  LET a == Trans(A, transA)
      b == Trans(B, transB)
      n == NumCols(a)
  IN [i \in 1..NumRows(C) |-> [j \in 1..NumCols(C) |->
        Mul(alpha, SumTo([k \in 1..n |-> Mul(a[i][k], b[k][j])], n))
        + Mul(beta, C[i][j])]]

\* every row r of M: M[r] = alpha * v + beta * M[r]
AddVecToRows(alpha, v, beta, M) ==
  [i \in 1..NumRows(M) |-> [j \in 1..NumCols(M) |->
     Mul(alpha, v[j]) + Mul(beta, M[i][j])]]

\* v = alpha * (sum of the rows of M) + beta * v
AddRowSumMat(alpha, M, beta, v) ==
  [j \in 1..Dim(v) |->
     Mul(alpha, SumTo([i \in 1..NumRows(M) |-> M[i][j]], NumRows(M)))
     + Mul(beta, v[j])]

Max(a, b) == IF a >= b THEN a ELSE b

Min(a, b) == IF a <= b THEN a ELSE b

ApplyFloor(M, floor) ==
  [i \in 1..NumRows(M) |-> [j \in 1..NumCols(M) |-> Max(M[i][j], floor)]]

ApplyCeiling(M, ceiling) ==
  [i \in 1..NumRows(M) |-> [j \in 1..NumCols(M) |-> Min(M[i][j], ceiling)]]

ApplyFloorVec(v, floor) == [j \in 1..Dim(v) |-> Max(v[j], floor)]

ApplyCeilingVec(v, ceiling) == [j \in 1..Dim(v) |-> Min(v[j], ceiling)]

\* M = M + alpha * A
AddMat(alpha, A, M) ==
  [i \in 1..NumRows(M) |-> [j \in 1..NumCols(M) |-> M[i][j] + Mul(alpha, A[i][j])]]

AddVec(alpha, a, v) == [j \in 1..Dim(v) |-> v[j] + Mul(alpha, a[j])]

\* C = alpha * (A .* B) + beta * C
AddMatMatElements(alpha, A, B, beta, C) ==
  [i \in 1..NumRows(C) |-> [j \in 1..NumCols(C) |->
     Mul(alpha, Mul(A[i][j], B[i][j])) + Mul(beta, C[i][j])]]

AddVecVec(alpha, a, b, beta, v) ==
  [j \in 1..Dim(v) |-> Mul(alpha, Mul(a[j], b[j])) + Mul(beta, v[j])]

ScaleMat(M, s) == [i \in 1..NumRows(M) |-> [j \in 1..NumCols(M) |-> Mul(s, M[i][j])]]

ScaleVec(v, s) == [j \in 1..Dim(v) |-> Mul(s, v[j])]

SameDimMat(A, B) == NumRows(A) = NumRows(B) /\ NumCols(A) = NumCols(B)

\* InitRandUniform(range): element k of a buffer drawn in [-range, range]
RandUniform(seed, k, range) == ((seed * 7 + k * 3) % (2 * range + 1)) - range

InitRandUniformMat(r, c, range, seed) ==
  [i \in 1..r |-> [j \in 1..c |-> RandUniform(seed, (i - 1) * c + j, range)]]

InitRandUniformVec(n, range, seed) ==
  [j \in 1..n |-> RandUniform(seed + 1, j, range)]

----------------------------------------------------------------------------
\* Accumulator helpers of the adaptive rules (net/utils-functions.h).
Epsilon == 1

RMSPropDecay == 95

\* accu += corr^2
AdagradAccuUpdate(accu, corr) ==
  [i \in 1..NumRows(accu) |-> [j \in 1..NumCols(accu) |->
     accu[i][j] + Mul(corr[i][j], corr[i][j])]]

AdagradAccuUpdateVec(accu, corr) ==
  [j \in 1..Dim(accu) |-> accu[j] + Mul(corr[j], corr[j])]

\* accu = decay * accu + (1 - decay) * corr^2
RMSPropAccuUpdate(accu, corr) ==
  [i \in 1..NumRows(accu) |-> [j \in 1..NumCols(accu) |->
     Mul(RMSPropDecay, accu[i][j])
     + Mul(One - RMSPropDecay, Mul(corr[i][j], corr[i][j]))]]

RMSPropAccuUpdateVec(accu, corr) ==
  [j \in 1..Dim(accu) |->
     Mul(RMSPropDecay, accu[j]) + Mul(One - RMSPropDecay, Mul(corr[j], corr[j]))]

\* 1.0 / sqrt(accu + epsilon)
InvSqrt(a) == TDiv(One * One, Sqrt(a + Epsilon))

AdagradScaleCompute(accu) ==
  [i \in 1..NumRows(accu) |-> [j \in 1..NumCols(accu) |-> InvSqrt(accu[i][j])]]

AdagradScaleComputeVec(accu) == [j \in 1..Dim(accu) |-> InvSqrt(accu[j])]

----------------------------------------------------------------------------
\* The layer object.
AffineTransform(dim_in, dim_out) ==
  [ input_dim_ |-> dim_in,
    output_dim_ |-> dim_out,
    linearity_ |-> ConstMat(dim_out, dim_in, 0),
    bias_ |-> ConstVec(dim_out, 0),
    linearity_corr_ |-> ConstMat(dim_out, dim_in, 0),
    bias_corr_ |-> ConstVec(dim_out, 0),
    linearity_corr_accu |-> << >>,
    bias_corr_accu |-> << >>,
    linearity_corr_accu_scale |-> << >>,
    bias_corr_accu_scale |-> << >>,
    learn_rate_coef_ |-> One,
    max_grad_ |-> 0,
    adaBuffersInitialized |-> FALSE ]

\* Defaults of InitData's options: param_range 0.02, max_grad 0.0, learn_rate_coef 1.0
DefaultOptions ==
  [ param_range |-> (2 * One) \div 100, max_grad |-> 0, learn_rate_coef |-> One,
    err |-> "none" ]

\* Mutant of ParseConfig: an unknown token is skipped instead of failing.
RECURSIVE ParseConfig_SkipsUnknown(_, _)
ParseConfig_SkipsUnknown(is, opt) ==
  IF is = << >> THEN opt
  ELSE LET token == Head(is).tok
           value == Head(is).val
       IN IF token = "<ParamRange>"
          THEN ParseConfig_SkipsUnknown(Tail(is), [opt EXCEPT !.param_range = value])
          ELSE IF token = "<LearnRateCoef>"
          THEN ParseConfig_SkipsUnknown(Tail(is), [opt EXCEPT !.learn_rate_coef = value])
          ELSE IF token = "<MaxGrad>"
          THEN ParseConfig_SkipsUnknown(Tail(is), [opt EXCEPT !.max_grad = value])
          ELSE ParseConfig_SkipsUnknown(Tail(is), opt)

\* The parse loop of InitData over the (token, value) pairs left in the stream.
RECURSIVE ParseConfig(_, _)
ParseConfig(is, opt) ==
  IF is = << >> THEN opt
  ELSE LET token == Head(is).tok
           value == Head(is).val
       IN IF token = "<ParamRange>"
          THEN ParseConfig(Tail(is), [opt EXCEPT !.param_range = value])
          ELSE IF token = "<LearnRateCoef>"
          THEN ParseConfig(Tail(is), [opt EXCEPT !.learn_rate_coef = value])
          ELSE IF token = "<MaxGrad>"
          THEN ParseConfig(Tail(is), [opt EXCEPT !.max_grad = value])
          ELSE [opt EXCEPT !.err = "Unknown token"]

InitData(L, is, seed) ==
  LET opt == ParseConfig(is, DefaultOptions)
  IN IF opt.err # "none" THEN [L |-> L, err |-> opt.err]
     ELSE [ L |-> [L EXCEPT
                    !.linearity_ = InitRandUniformMat(L.output_dim_, L.input_dim_,
                                                      opt.param_range, seed),
                    !.bias_ = InitRandUniformVec(L.output_dim_, opt.param_range, seed),
                    !.learn_rate_coef_ = opt.learn_rate_coef,
                    !.max_grad_ = opt.max_grad],
            err |-> "none" ]

InitAdaBuffers(L) ==
  [L EXCEPT
     !.linearity_corr_accu = ConstMat(L.output_dim_, L.input_dim_, 0),
     !.bias_corr_accu = ConstVec(L.output_dim_, 0),
     !.linearity_corr_accu_scale = ConstMat(L.output_dim_, L.input_dim_, 0),
     !.bias_corr_accu_scale = ConstVec(L.output_dim_, 0),
     !.adaBuffersInitialized = TRUE]

----------------------------------------------------------------------------
\* Stream items and the token reader's primitives.
Tok(t) == [k |-> "tok", tok |-> t, num |-> 0, mat |-> << >>, vec |-> << >>]

Num(x) == [k |-> "num", tok |-> "", num |-> x, mat |-> << >>, vec |-> << >>]

MatItem(M) == [k |-> "mat", tok |-> "", num |-> 0, mat |-> M, vec |-> << >>]

VecItem(v) == [k |-> "vec", tok |-> "", num |-> 0, mat |-> << >>, vec |-> v]

\* Peek: the first character of what comes next; only a token starts with '<'
Peek(is) ==
  IF is = << >> THEN "EOF"
  ELSE IF Head(is).k = "tok" THEN "<"
  ELSE IF Head(is).k = "mat" \/ Head(is).k = "vec" THEN "["
  ELSE "0"

\* A reader step threads [L, is, err]; a failed step throws and the rest is skipped.
ExpectToken(st, token) ==
  IF st.is # << >> /\ Head(st.is).k = "tok" /\ Head(st.is).tok = token
  THEN [st EXCEPT !.is = Tail(st.is)]
  ELSE [st EXCEPT !.err = "ExpectToken"]

CanRead(st, kind) == st.is # << >> /\ Head(st.is).k = kind

\* Mutant of ReadLearnRateCoef: the tag is expected without peeking first.
ReadLearnRateCoef_NoPeek(st) ==
  LET t == ExpectToken(st, "<LearnRateCoef>")
  IN IF t.err # "none" THEN t
     ELSE IF ~CanRead(t, "num") THEN [t EXCEPT !.err = "ReadBasicType"]
     ELSE [t EXCEPT !.L.learn_rate_coef_ = Head(t.is).num, !.is = Tail(t.is)]

ReadLearnRateCoef(st) ==
  IF Peek(st.is) = "<"
  THEN LET t == ExpectToken(st, "<LearnRateCoef>")
       IN IF t.err # "none" THEN t
          ELSE IF ~CanRead(t, "num") THEN [t EXCEPT !.err = "ReadBasicType"]
          ELSE [t EXCEPT !.L.learn_rate_coef_ = Head(t.is).num, !.is = Tail(t.is)]
  ELSE st

ReadMaxGrad(st) ==
  IF st.err # "none" THEN st
  ELSE IF Peek(st.is) = "<"
  THEN LET t == ExpectToken(st, "<MaxGrad>")
       IN IF t.err # "none" THEN t
          ELSE IF ~CanRead(t, "num") THEN [t EXCEPT !.err = "ReadBasicType"]
          ELSE [t EXCEPT !.L.max_grad_ = Head(t.is).num, !.is = Tail(t.is)]
  ELSE st

\* Mutant of ReadAffineAccus: the buffers are initialised after the block is read.
ReadAffineAccus_InitAfterRead(st) ==
  IF st.err # "none" THEN st
  ELSE IF Peek(st.is) = "<"
  THEN LET t == ExpectToken(st, "<AffineAccus>")
       IN IF t.err # "none" THEN t
          ELSE IF ~CanRead(t, "mat") THEN [t EXCEPT !.err = "Read"]
          ELSE LET v == [t EXCEPT !.is = Tail(t.is)]
               IN IF ~CanRead(v, "vec") THEN [v EXCEPT !.err = "Read"]
                  ELSE [v EXCEPT !.L = InitAdaBuffers(v.L), !.is = Tail(v.is)]
  ELSE st

ReadAffineAccus(st) ==
  IF st.err # "none" THEN st
  ELSE IF Peek(st.is) = "<"
  THEN LET t == ExpectToken(st, "<AffineAccus>")
       IN IF t.err # "none" THEN t
          ELSE LET u == [t EXCEPT !.L = InitAdaBuffers(t.L)]
               IN IF ~CanRead(u, "mat") THEN [u EXCEPT !.err = "Read"]
                  ELSE LET v == [u EXCEPT !.L.linearity_corr_accu = Head(u.is).mat,
                                          !.is = Tail(u.is)]
                       IN IF ~CanRead(v, "vec") THEN [v EXCEPT !.err = "Read"]
                          ELSE [v EXCEPT !.L.bias_corr_accu = Head(v.is).vec,
                                         !.is = Tail(v.is)]
  ELSE st

ReadWeights(st) ==
  IF st.err # "none" THEN st
  ELSE IF ~CanRead(st, "mat") THEN [st EXCEPT !.err = "Read"]
  ELSE LET v == [st EXCEPT !.L.linearity_ = Head(st.is).mat, !.is = Tail(st.is)]
       IN IF ~CanRead(v, "vec") THEN [v EXCEPT !.err = "Read"]
          ELSE [v EXCEPT !.L.bias_ = Head(v.is).vec, !.is = Tail(v.is)]

AssertDims(st) ==
  IF st.err # "none" THEN st
  ELSE IF /\ NumRows(st.L.linearity_) = st.L.output_dim_
          /\ NumCols(st.L.linearity_) = st.L.input_dim_
          /\ Dim(st.L.bias_) = st.L.output_dim_
  THEN st
  ELSE [st EXCEPT !.err = "KALDI_ASSERT"]

\* Mutant of ReadData: adaBuffersInitialized is not cleared first.
ReadData_KeepsFlag(L, is) ==
  LET st0 == [L |-> L, is |-> is, err |-> "none"]
  IN AssertDims(ReadWeights(ReadAffineAccus(ReadMaxGrad(ReadLearnRateCoef(st0)))))

ReadData(L, is) ==
  LET st0 == [L |-> [L EXCEPT !.adaBuffersInitialized = FALSE], is |-> is, err |-> "none"]
  IN AssertDims(ReadWeights(ReadAffineAccus(ReadMaxGrad(ReadLearnRateCoef(st0)))))

WriteAccus(L) ==
  IF L.adaBuffersInitialized
  THEN << Tok("<AffineAccus>"), MatItem(L.linearity_corr_accu), VecItem(L.bias_corr_accu) >>
  ELSE << >>

WriteData(L) ==
  << Tok("<LearnRateCoef>"), Num(L.learn_rate_coef_), Tok("<MaxGrad>"), Num(L.max_grad_) >>
  \o WriteAccus(L)
  \o << MatItem(L.linearity_), VecItem(L.bias_) >>

----------------------------------------------------------------------------
\* Forward and backward pass.
\* Mutant of PropagateFnc: the bias is added onto what the buffer held.
PropagateFnc_KeepsBuffer(L, in, out) ==
  LET precopy == AddVecToRows(One, L.bias_, One, out)
  IN AddMatMat(One, in, "kNoTrans", L.linearity_, "kTrans", One, precopy)

PropagateFnc(L, in, out) ==
  LET precopy == AddVecToRows(One, L.bias_, 0, out)
  IN AddMatMat(One, in, "kNoTrans", L.linearity_, "kTrans", One, precopy)

BackpropagateFnc(L, in, out, out_diff, in_diff) ==
  AddMatMat(One, out_diff, "kNoTrans", L.linearity_, "kNoTrans", 0, in_diff)

----------------------------------------------------------------------------
\* Update.
\* compute gradient (incl. momentum)
ComputeGradient(L, mmt, input, diff) ==
  [L EXCEPT
     !.linearity_corr_ = AddMatMat(One, diff, "kTrans", input, "kNoTrans", mmt, @),
     !.bias_corr_ = AddRowSumMat(One, diff, mmt, @)]

\* Mutant of ClipGradients: the ceiling is applied without the floor.
ClipGradients_CeilingOnly(L) ==
  IF L.max_grad_ > 0
  THEN [L EXCEPT !.linearity_corr_ = ApplyCeiling(@, L.max_grad_),
                 !.bias_corr_ = ApplyCeilingVec(@, L.max_grad_)]
  ELSE L

\* clip gradients
ClipGradients(L) ==
  IF L.max_grad_ > 0
  THEN [L EXCEPT
          !.linearity_corr_ = ApplyCeiling(ApplyFloor(@, -L.max_grad_), L.max_grad_),
          !.bias_corr_ = ApplyCeilingVec(ApplyFloorVec(@, -L.max_grad_), L.max_grad_)]
  ELSE L

\* rule == sgd_update
SgdUpdate(L, lr0) ==
  LET lr == Mul(lr0, L.learn_rate_coef_)
  IN [L EXCEPT !.linearity_ = AddMat(-lr, L.linearity_corr_, @),
               !.bias_ = AddVec(-lr, L.bias_corr_, @)]

\* Mutant of EnsureAdaBuffers: the buffers are initialised on every adaptive Update.
EnsureAdaBuffers_Always(L) == InitAdaBuffers(L)

\* if (!adaBuffersInitialized) { InitAdaBuffers(); adaBuffersInitialized=true; }
EnsureAdaBuffers(L) ==
  IF ~L.adaBuffersInitialized
  THEN [InitAdaBuffers(L) EXCEPT !.adaBuffersInitialized = TRUE]
  ELSE L

\* update the accumulators
AccuUpdate(L, rule) ==
  IF rule = "adagrad_update"
  THEN [L EXCEPT
          !.linearity_corr_accu = AdagradAccuUpdate(@, L.linearity_corr_),
          !.bias_corr_accu = AdagradAccuUpdateVec(@, L.bias_corr_)]
  ELSE [L EXCEPT
          !.linearity_corr_accu = RMSPropAccuUpdate(@, L.linearity_corr_),
          !.bias_corr_accu = RMSPropAccuUpdateVec(@, L.bias_corr_)]

\* calculate 1.0 / sqrt(accu + epsilon)
ScaleCompute(L) ==
  [L EXCEPT !.linearity_corr_accu_scale = AdagradScaleCompute(L.linearity_corr_accu),
            !.bias_corr_accu_scale = AdagradScaleComputeVec(L.bias_corr_accu)]

\* update the parameters
AdaParamUpdate(L, lr) ==
  [L EXCEPT
     !.linearity_ = AddMatMatElements(-lr, L.linearity_corr_accu_scale,
                                      L.linearity_corr_, One, @),
     !.bias_ = AddVecVec(-lr, L.bias_corr_accu_scale, L.bias_corr_, One, @)]

\* The backend asserts equal dimensions in its elementwise operations.
AccuDimsMatch(L) ==
  /\ SameDimMat(L.linearity_corr_accu, L.linearity_corr_)
  /\ Dim(L.bias_corr_accu) = Dim(L.bias_corr_)

\* rule == adagrad_update || rule == rmsprop_update
AdaUpdate(L, lr, rule) ==
  LET L1 == EnsureAdaBuffers(L)
  IN IF ~AccuDimsMatch(L1) THEN [L |-> L1, err |-> "KALDI_ASSERT"]
     ELSE [L |-> AdaParamUpdate(ScaleCompute(AccuUpdate(L1, rule)), lr), err |-> "none"]

Update(L, o, input, diff, rule) ==
  LET lr == o.learn_rate
      mmt == o.momentum
      L1 == ClipGradients(ComputeGradient(L, mmt, input, diff))
  IN IF rule = "sgd_update" THEN [L |-> SgdUpdate(L1, lr), err |-> "none"]
     ELSE IF rule = "adagrad_update" \/ rule = "rmsprop_update"
     THEN AdaUpdate(L1, lr, rule)
     ELSE [L |-> L1, err |-> "none"]

----------------------------------------------------------------------------
\* Model combination and setters.
Scale(L, scale) ==
  [L EXCEPT !.linearity_ = ScaleMat(@, scale), !.bias_ = ScaleVec(@, scale)]

\* dynamic_cast<const AffineTransform*>(&layer_other): NULL for another variant
DynamicCast(layer_other) ==
  IF layer_other.type = "AffineTransform"
  THEN [null |-> FALSE, obj |-> layer_other.obj]
  ELSE [null |-> TRUE]

AddOther(L, scale, other) ==
  [L EXCEPT !.linearity_ = AddMat(scale, other.linearity_, @),
            !.bias_ = AddVec(scale, other.bias_, @)]

\* What a read through the null pointer may give when it does not trap.
Garbage(L) ==
  { [linearity_ |-> ConstMat(L.output_dim_, L.input_dim_, One),
     bias_ |-> ConstVec(L.output_dim_, One)] }

\* The outcomes of Add: other->linearity_ with other == NULL is undefined behaviour,
\* a trap or an add of whatever the read returns.
Add(L, scale, layer_other) ==
  LET other == DynamicCast(layer_other)
  IN IF ~other.null THEN { [L |-> AddOther(L, scale, other.obj), err |-> "none"] }
     ELSE { [L |-> L, err |-> "SIGSEGV"] }
          \cup { [L |-> AddOther(L, scale, g), err |-> "none"] : g \in Garbage(L) }

SetBias(L, bias) ==
  IF Dim(bias) = Dim(L.bias_)
  THEN [L |-> [L EXCEPT !.bias_ = bias], err |-> "none"]
  ELSE [L |-> L, err |-> "KALDI_ASSERT"]

SetLinearity(L, linearity) ==
  IF NumRows(linearity) = NumRows(L.linearity_) /\ NumCols(linearity) = NumCols(L.linearity_)
  THEN [L |-> [L EXCEPT !.linearity_ = linearity], err |-> "none"]
  ELSE [L |-> L, err |-> "KALDI_ASSERT"]

----------------------------------------------------------------------------
\* The state machine: one layer instance driven by its caller.
VARIABLES
  layer,    \* the AffineTransform object
  opts_,    \* the trainer's hyperparameters (learn_rate, momentum)
  call,     \* the last call: its name, arguments and result
  fault,    \* "none", or the fatal fault that ended the run
  steps     \* number of calls made

vars == << layer, opts_, call, fault, steps >>

\* Inputs of the calls.
TrainOptions ==
  { [learn_rate |-> One \div 10, momentum |-> 0],
    [learn_rate |-> One \div 10, momentum |-> One \div 2] }

UpdateRules == { "sgd_update", "adagrad_update", "rmsprop_update" }

RampMat(r, c, unit) == [i \in 1..r |-> [j \in 1..c |-> unit * (i + j - 1)]]

Minibatches ==
  { [input |-> ConstMat(1, DimIn, One), diff |-> ConstMat(1, DimOut, 3 * One)],
    [input |-> RampMat(MaxBatch, DimIn, One \div 2),
     diff |-> RampMat(MaxBatch, DimOut, -One)] }

Activations == { ConstMat(1, DimIn, One), RampMat(MaxBatch, DimIn, One \div 2) }

\* What a caller's output buffer may hold before the call.
Buffers(r, c) == { ConstMat(r, c, 0), ConstMat(r, c, 7 * One) }

ConfigItems ==
  { [tok |-> "<ParamRange>", val |-> One \div 25],
    [tok |-> "<LearnRateCoef>", val |-> One \div 2],
    [tok |-> "<LearnRateCoef>", val |-> 2 * One],
    [tok |-> "<MaxGrad>", val |-> One],
    [tok |-> "<BiasMean>", val |-> 0] }

Configs == UNION { [1..n -> ConfigItems] : n \in 0..MaxConf }

\* The configuration lines the full machine is driven with: at most one option.
ShortConfigs == UNION { [1..n -> ConfigItems] : n \in 0..1 }

GoodLinearity == RampMat(DimOut, DimIn, One \div 4)

GoodBias == ConstVec(DimOut, One \div 5)

MkStream(hasCoef, hasMaxGrad, hasAccus, lin, bias, accu, bias_accu) ==
  (IF hasCoef THEN << Tok("<LearnRateCoef>"), Num(One \div 2) >> ELSE << >>)
  \o (IF hasMaxGrad THEN << Tok("<MaxGrad>"), Num(One) >> ELSE << >>)
  \o (IF hasAccus THEN << Tok("<AffineAccus>"), MatItem(accu), VecItem(bias_accu) >>
      ELSE << >>)
  \o << MatItem(lin), VecItem(bias) >>

\* Well-framed streams: every subset of the optional tags, and tensors of the
\* layer's dimensions or of others.
GoodStream(c, m, a) ==
  MkStream(c, m, a, GoodLinearity, GoodBias,
           ConstMat(DimOut, DimIn, 4 * One), ConstVec(DimOut, One))

Streams ==
  { GoodStream(c, m, a) : c \in BOOLEAN, m \in BOOLEAN, a \in BOOLEAN }
  \cup
  { MkStream(TRUE, TRUE, FALSE, ConstMat(DimOut, DimIn + 1, One), GoodBias, << >>, << >>),
    MkStream(TRUE, TRUE, FALSE, GoodLinearity, ConstVec(DimOut + 1, One), << >>, << >>),
    MkStream(TRUE, TRUE, TRUE, GoodLinearity, GoodBias,
             ConstMat(DimOut + 1, DimIn, 4 * One), ConstVec(DimOut, One)),
    MkStream(TRUE, TRUE, TRUE, GoodLinearity, GoodBias,
             ConstMat(DimOut, DimIn, 4 * One), ConstVec(DimOut + 1, One)) }

ScaleFactors == { 0, One \div 2 }

OtherLayers(L) ==
  { [type |-> "AffineTransform", obj |-> L],
    [type |-> "Softmax"] }

Init ==
  /\ layer = AffineTransform(DimIn, DimOut)
  /\ opts_ \in TrainOptions
  /\ call = [op |-> "AffineTransform"]
  /\ fault = "none"
  /\ steps = 0

Running == fault = "none" /\ steps < MaxSteps

DoInitData(configs) ==
  /\ Running
  /\ \E is \in configs, seed \in 1..NumSeeds :
       LET r == InitData(layer, is, seed)
       IN /\ layer' = r.L
          /\ fault' = (IF r.err = "none" THEN "none" ELSE "ConfigError")
          /\ call' = [op |-> "InitData", is |-> is, seed |-> seed]
  /\ steps' = steps + 1
  /\ UNCHANGED opts_

DoReadData ==
  /\ Running
  /\ \E is \in Streams \cup (IF call.op = "WriteData" THEN {call.os} ELSE {}) :
       LET r == ReadData(layer, is)
       IN /\ layer' = r.L
          /\ fault' = r.err
          /\ call' = [op |-> "ReadData", is |-> is]
  /\ steps' = steps + 1
  /\ UNCHANGED opts_

DoWriteData ==
  /\ Running
  /\ call' = [op |-> "WriteData", os |-> WriteData(layer)]
  /\ steps' = steps + 1
  /\ UNCHANGED << layer, opts_, fault >>

DoPropagate ==
  /\ Running
  /\ \E in \in Activations :
       \E out \in Buffers(NumRows(in), layer.output_dim_) :
         call' = [op |-> "Propagate", in |-> in, before |-> out,
                  out |-> PropagateFnc(layer, in, out)]
  /\ steps' = steps + 1
  /\ UNCHANGED << layer, opts_, fault >>

DoBackpropagate ==
  /\ Running
  /\ \E mb \in Minibatches :
       \E in_diff \in Buffers(NumRows(mb.input), layer.input_dim_) :
         call' = [op |-> "Backpropagate", out_diff |-> mb.diff,
                  in_diff |-> BackpropagateFnc(layer, mb.input, << >>, mb.diff, in_diff)]
  /\ steps' = steps + 1
  /\ UNCHANGED << layer, opts_, fault >>

DoUpdate ==
  /\ Running
  /\ \E mb \in Minibatches, rule \in UpdateRules :
       LET r == Update(layer, opts_, mb.input, mb.diff, rule)
       IN /\ layer' = r.L
          /\ fault' = r.err
          /\ call' = [op |-> "Update", input |-> mb.input, diff |-> mb.diff, rule |-> rule]
  /\ steps' = steps + 1
  /\ UNCHANGED opts_

DoScale ==
  /\ Running
  /\ \E scale \in ScaleFactors :
       /\ layer' = Scale(layer, scale)
       /\ call' = [op |-> "Scale", scale |-> scale]
  /\ steps' = steps + 1
  /\ UNCHANGED << opts_, fault >>

DoAdd ==
  /\ Running
  /\ \E layer_other \in OtherLayers(layer) :
       \E r \in Add(layer, One, layer_other) :
         /\ layer' = r.L
         /\ fault' = r.err
         /\ call' = [op |-> "Add", scale |-> One, other |-> layer_other.type]
  /\ steps' = steps + 1
  /\ UNCHANGED opts_

DoSetBias ==
  /\ Running
  /\ \E bias \in { GoodBias, ConstVec(DimOut + 1, One) } :
       LET r == SetBias(layer, bias)
       IN /\ layer' = r.L
          /\ fault' = r.err
          /\ call' = [op |-> "SetBias", bias |-> bias]
  /\ steps' = steps + 1
  /\ UNCHANGED opts_

DoSetLinearity ==
  /\ Running
  /\ \E linearity \in { GoodLinearity, ConstMat(DimOut, DimIn + 1, One) } :
       LET r == SetLinearity(layer, linearity)
       IN /\ layer' = r.L
          /\ fault' = r.err
          /\ call' = [op |-> "SetLinearity", linearity |-> linearity]
  /\ steps' = steps + 1
  /\ UNCHANGED opts_

Next ==
  \/ DoInitData(ShortConfigs)
  \/ DoReadData
  \/ DoWriteData
  \/ DoPropagate
  \/ DoBackpropagate
  \/ DoUpdate
  \/ DoScale
  \/ DoAdd
  \/ DoSetBias
  \/ DoSetLinearity

Spec == Init /\ [][Next]_vars

\* InitData alone, over every configuration line of at most MaxConf options.
NextInitData == DoInitData(Configs)

SpecInitData == Init /\ [][NextInitData]_vars

----------------------------------------------------------------------------
\* Properties.

IsAdaptive(rule) == rule = "adagrad_update" \/ rule = "rmsprop_update"

\* x . w for two vectors of the same length
Dot(x, w) == SumTo([k \in 1..Len(x) |-> Mul(x[k], w[k])], Len(x))

\* C1: Propagate writes output row i = x[i] . W^T + b for every row i, whatever the
\* output buffer held before, and leaves the layer as it was.
C1_PropagateAffine ==
  [][call'.op = "Propagate" =>
       /\ layer' = layer
       /\ call'.out = [i \in 1..NumRows(call'.in) |-> [j \in 1..layer.output_dim_ |->
                         Dot(call'.in[i], layer.linearity_[j]) + layer.bias_[j]]]]_vars

C1_Witness ==
  /\ call.op = "Propagate"
  /\ NumRows(call.in) = MaxBatch
  /\ call.before = ConstMat(MaxBatch, DimOut, 7 * One)
  /\ layer.bias_[1] # 0
  /\ layer.linearity_[1][1] # 0
  /\ call.out[1][1] # call.out[MaxBatch][1]

\* C2: a layer read from what WriteData wrote, into a freshly constructed layer of the
\* same dimensions, has the writer's weight, bias, learn_rate_coef, max_grad and
\* adaBuffersInitialized, and the writer's accumulators when that flag is set.
C2_RoundTrip ==
  call.op = "WriteData" =>
    LET r == ReadData(AffineTransform(layer.input_dim_, layer.output_dim_), call.os)
    IN /\ r.err = "none"
       /\ r.is = << >>
       /\ r.L.linearity_ = layer.linearity_
       /\ r.L.bias_ = layer.bias_
       /\ r.L.learn_rate_coef_ = layer.learn_rate_coef_
       /\ r.L.max_grad_ = layer.max_grad_
       /\ r.L.adaBuffersInitialized = layer.adaBuffersInitialized
       /\ layer.adaBuffersInitialized =>
            /\ r.L.linearity_corr_accu = layer.linearity_corr_accu
            /\ r.L.bias_corr_accu = layer.bias_corr_accu

C2_Witness ==
  /\ call.op = "WriteData"
  /\ layer.adaBuffersInitialized
  /\ layer.learn_rate_coef_ # One
  /\ layer.max_grad_ # 0
  /\ layer.linearity_corr_accu # ConstMat(DimOut, DimIn, 0)
  /\ layer.linearity_corr_accu # ConstMat(DimOut, DimIn, 4 * One)

\* C3: under adagrad and rmsprop the step applied to weight and bias is
\* learn_rate * learn_rate_coef * scale .* corr, as under sgd.
C3_AdaptiveStepUsesCoef ==
  [][(call'.op = "Update" /\ IsAdaptive(call'.rule) /\ fault' = "none") =>
       LET lr == Mul(opts_.learn_rate, layer.learn_rate_coef_)
       IN /\ layer'.linearity_ =
               AddMatMatElements(-lr, layer'.linearity_corr_accu_scale,
                                 layer'.linearity_corr_, One, layer.linearity_)
          /\ layer'.bias_ =
               AddVecVec(-lr, layer'.bias_corr_accu_scale, layer'.bias_corr_, One,
                         layer.bias_)]_vars

AdaBuffers(L) ==
  << L.linearity_corr_accu, L.bias_corr_accu,
     L.linearity_corr_accu_scale, L.bias_corr_accu_scale >>

\* C4: an Update with rule sgd leaves adaBuffersInitialized and the adaptive buffers as
\* they were; an Update with rule adagrad or rmsprop leaves the flag set; a set flag stays
\* set over every Update; and once the flag is set an adaptive Update continues from the
\* accumulated history instead of from zero.
C4_LazyInitOverUpdates ==
  [][call'.op = "Update" =>
       /\ call'.rule = "sgd_update" =>
            /\ layer'.adaBuffersInitialized = layer.adaBuffersInitialized
            /\ AdaBuffers(layer') = AdaBuffers(layer)
       /\ IsAdaptive(call'.rule) => layer'.adaBuffersInitialized
       /\ layer.adaBuffersInitialized => layer'.adaBuffersInitialized
       /\ (layer.adaBuffersInitialized /\ call'.rule = "adagrad_update" /\ fault' = "none") =>
            /\ layer'.linearity_corr_accu =
                 AdagradAccuUpdate(layer.linearity_corr_accu, layer'.linearity_corr_)
            /\ layer'.bias_corr_accu =
                 AdagradAccuUpdateVec(layer.bias_corr_accu, layer'.bias_corr_)
       /\ (layer.adaBuffersInitialized /\ call'.rule = "rmsprop_update" /\ fault' = "none") =>
            /\ layer'.linearity_corr_accu =
                 RMSPropAccuUpdate(layer.linearity_corr_accu, layer'.linearity_corr_)
            /\ layer'.bias_corr_accu =
                 RMSPropAccuUpdateVec(layer.bias_corr_accu, layer'.bias_corr_)]_vars

\* an sgd Update made after two adaptive ones: the flag and the history are kept
C4_Witness ==
  /\ call.op = "Update"
  /\ call.rule = "sgd_update"
  /\ steps = 3
  /\ layer.adaBuffersInitialized
  /\ layer.linearity_corr_accu[1][1] > Mul(3 * One, 3 * One)

\* C5 as stated: adaBuffersInitialized never goes from true to false, whatever the
\* operation.
C5_NeverReverts ==
  [][layer.adaBuffersInitialized => layer'.adaBuffersInitialized]_vars

Allocated(L) ==
  /\ NumRows(L.linearity_corr_accu_scale) = L.output_dim_
  /\ NumCols(L.linearity_corr_accu_scale) = L.input_dim_
  /\ Dim(L.bias_corr_accu_scale) = L.output_dim_
  /\ L.linearity_corr_accu # << >>
  /\ L.bias_corr_accu # << >>

HasToken(is, token) == \E i \in 1..Len(is) : is[i].k = "tok" /\ is[i].tok = token

\* C5 amended: a set flag means the adaptive buffers are allocated; every operation
\* other than ReadData keeps a set flag; ReadData leaves the flag set exactly when it
\* read an accumulator block, whatever the flag was before.
C5_MonotonicExceptReadData ==
  [][/\ layer'.adaBuffersInitialized => Allocated(layer')
     /\ call'.op # "ReadData" =>
          (layer.adaBuffersInitialized => layer'.adaBuffersInitialized)
     /\ (call'.op = "ReadData" /\ fault' = "none") =>
          (layer'.adaBuffersInitialized <=> HasToken(call'.is, "<AffineAccus>"))]_vars

\* a layer whose buffers were allocated by an adaptive Update, read from a stream that
\* has no accumulator block: the flag is false again
C5_Witness ==
  /\ call.op = "ReadData"
  /\ fault = "none"
  /\ ~layer.adaBuffersInitialized
  /\ Allocated(layer)

InRange(x, g) == -g <= x /\ x <= g

\* C6: after an Update on a layer with max_grad = g > 0 every element of linearity_corr
\* and bias_corr lies in [-g, g]; with max_grad = 0 the buffers hold the unclamped
\* momentum-blended gradient.
C6_Clipping ==
  [][call'.op = "Update" =>
       /\ layer.max_grad_ > 0 =>
            /\ \A i \in 1..DimOut : \A j \in 1..DimIn :
                 InRange(layer'.linearity_corr_[i][j], layer.max_grad_)
            /\ \A i \in 1..DimOut : InRange(layer'.bias_corr_[i], layer.max_grad_)
       /\ layer.max_grad_ = 0 =>
            /\ layer'.linearity_corr_ =
                 AddMatMat(One, call'.diff, "kTrans", call'.input, "kNoTrans",
                           opts_.momentum, layer.linearity_corr_)
            /\ layer'.bias_corr_ =
                 AddRowSumMat(One, call'.diff, opts_.momentum, layer.bias_corr_)]_vars

\* a gradient of 3.0 per element stored as 1.0 under max_grad = 1.0
C6_Witness ==
  /\ call.op = "Update"
  /\ layer.max_grad_ = One
  /\ call.diff = ConstMat(1, DimOut, 3 * One)
  /\ layer.linearity_corr_ = ConstMat(DimOut, DimIn, One)
  /\ layer.bias_corr_ = ConstVec(DimOut, One)

\* C7: Add with an `other` that is not an AffineTransform fails with a TypeMismatch
\* fault and leaves weight and bias as they were.
C7_AddTypeMismatch ==
  [][(call'.op = "Add" /\ call'.other # "AffineTransform") =>
       /\ fault' = "TypeMismatch"
       /\ layer'.linearity_ = layer.linearity_
       /\ layer'.bias_ = layer.bias_]_vars

\* the number written after `token` in a stream that holds it
TokenValue(is, token) ==
  is[(CHOOSE i \in 1..Len(is) : is[i].k = "tok" /\ is[i].tok = token) + 1].num

\* C8 as stated: whichever of the three optional tags a stream holds, ReadData consumes
\* the tags present, applies their values and reads weight and bias.
C8_TagsIndependent ==
  [][\A c \in BOOLEAN, m \in BOOLEAN, a \in BOOLEAN :
       (call'.op = "ReadData" /\ call'.is = GoodStream(c, m, a)) =>
         /\ fault' = "none"
         /\ c => layer'.learn_rate_coef_ = TokenValue(call'.is, "<LearnRateCoef>")
         /\ m => layer'.max_grad_ = TokenValue(call'.is, "<MaxGrad>")
         /\ layer'.adaBuffersInitialized = a
         /\ layer'.linearity_ = GoodLinearity
         /\ layer'.bias_ = GoodBias]_vars

\* C8 amended: ReadData accepts the streams whose optional tags form a prefix of
\* (LearnRateCoef, MaxGrad, AffineAccus): a tag present is consumed and its value
\* applied, a tag absent leaves its field as it was (1.0, 0.0 and no accumulators on a
\* freshly constructed layer), and weight and bias are read.  A stream that holds a
\* later tag without the earlier ones fails in ExpectToken.
C8_TagsPrefix ==
  [][\A c \in BOOLEAN, m \in BOOLEAN, a \in BOOLEAN :
       (call'.op = "ReadData" /\ call'.is = GoodStream(c, m, a)) =>
         IF (m => c) /\ (a => m)
         THEN LET fresh == ReadData(AffineTransform(DimIn, DimOut), call'.is).L
              IN /\ fault' = "none"
                 /\ layer'.learn_rate_coef_ =
                      (IF c THEN TokenValue(call'.is, "<LearnRateCoef>")
                       ELSE layer.learn_rate_coef_)
                 /\ layer'.max_grad_ =
                      (IF m THEN TokenValue(call'.is, "<MaxGrad>") ELSE layer.max_grad_)
                 /\ layer'.adaBuffersInitialized = a
                 /\ a => /\ layer'.linearity_corr_accu = ConstMat(DimOut, DimIn, 4 * One)
                         /\ layer'.bias_corr_accu = ConstVec(DimOut, One)
                 /\ layer'.linearity_ = GoodLinearity
                 /\ layer'.bias_ = GoodBias
                 /\ ~c => fresh.learn_rate_coef_ = One
                 /\ ~m => fresh.max_grad_ = 0
                 /\ ~a => fresh.linearity_corr_accu = << >> /\ fresh.bias_corr_accu = << >>
         ELSE fault' = "ExpectToken"]_vars

\* a stream with the LearnRateCoef tag alone, read into a layer whose max_grad is set
C8_Witness ==
  /\ call.op = "ReadData"
  /\ call.is = GoodStream(TRUE, FALSE, FALSE)
  /\ fault = "none"
  /\ layer.learn_rate_coef_ = One \div 2
  /\ layer.max_grad_ = One
  /\ layer.linearity_ = GoodLinearity

\* C9: while no fatal fault has occurred weight is (dim_out x dim_in), bias has length
\* dim_out, and the adaptive buffers, when present, have the shapes of their parameters;
\* so ReadData rejects a stream whose tensors have other dimensions.
C9_ShapeInvariant ==
  fault = "none" =>
    /\ NumRows(layer.linearity_) = layer.output_dim_
    /\ NumCols(layer.linearity_) = layer.input_dim_
    /\ Dim(layer.bias_) = layer.output_dim_
    /\ layer.adaBuffersInitialized =>
         /\ SameDimMat(layer.linearity_corr_accu, layer.linearity_)
         /\ SameDimMat(layer.linearity_corr_accu_scale, layer.linearity_)
         /\ Dim(layer.bias_corr_accu) = Dim(layer.bias_)
         /\ Dim(layer.bias_corr_accu_scale) = Dim(layer.bias_)

RecognizedOptions == { "<ParamRange>", "<LearnRateCoef>", "<MaxGrad>" }

\* the value of the last occurrence of `token` in a configuration line
Supplied(is, token, default) ==
  LET at == { i \in 1..Len(is) : is[i].tok = token }
  IN IF at = {} THEN default
     ELSE is[CHOOSE i \in at : \A k \in at : k <= i].val

====
